---- MODULE Spec2Model ----
(***************************************************************************)
(* Model of src/src/equalizer.py: levelling the volumes of n reservoirs    *)
(* with the single operation "add 1 to the first k reservoirs".           *)
(*                                                                         *)
(* Python lists are objects: the model keeps a heap of list objects and    *)
(* refers to them by reference, so that in-place mutation, list.copy()     *)
(* and aliasing are what the code makes them.  Object INPUT is the list    *)
(* the caller passes in.  Python indices are 0-based; At(l, i) reads       *)
(* l[i] of the source.                                                     *)
(***************************************************************************)
EXTENDS Integers, Sequences, FiniteSets, TLC

\* ------------------------------------------------------------------ bounds
MaxLen == 3
MaxVal == 2
\* longest run of prefix operations the free operation system explores;
\* one more than the largest gap a bounded input can have
MaxOps == MaxVal + 1

Vals == 0..MaxVal
Inputs == UNION {[1..n -> Vals] : n \in 0..MaxLen}

VARIABLES heap, pc, op, arg, i, cur, states, operations,
          retBool, retCount, retTrace, retFinal

vars == <<heap, pc, op, arg, i, cur, states, operations,
          retBool, retCount, retTrace, retFinal>>

\* reference of the caller's list object
INPUT == 1

\* no object / no reference
NoRef == 0

\* ------------------------------------------------------- list primitives
\* l[i] with Python's 0-based index
At(l, idx) == l[idx + 1]

\* len(set(l))
DistinctCount(l) == Cardinality({l[x] : x \in 1..Len(l)})

\* an aliasing "copy": returns the very same object
ListCopy_Alias(h, r) == [heap |-> h, ref |-> r]

\* l.copy(): a fresh object holding the same values
ListCopy(h, r) == [heap |-> Append(h, h[r]), ref |-> Len(h) + 1]

\* a "prefix" operation that touches reservoir k only
PrefixOperation_OnlyLast(l, k) ==
  [x \in 1..Len(l) |-> IF x = k THEN l[x] + 1 ELSE l[x]]

\* a prefix operation that adds 2 litres instead of 1
PrefixOperation_AddTwo(l, k) ==
  [x \in 1..Len(l) |-> IF x <= k THEN l[x] + 2 ELSE l[x]]

\* for j in range(k): l[j] += 1   -- the prefix operation of length k
PrefixOperation(l, k) ==
  [x \in 1..Len(l) |-> IF x <= k THEN l[x] + 1 ELSE l[x]]

\* a raise that reaches reservoir i only, not the ones before it
RaisePrefix_OnlyIdx(l, idx, diff) ==
  [x \in 1..Len(l) |-> IF x = idx + 1 THEN l[x] + diff ELSE l[x]]

\* for j in range(i+1): volumes[j] += diff
RaisePrefix(l, idx, diff) ==
  [x \in 1..Len(l) |-> IF x <= idx + 1 THEN l[x] + diff ELSE l[x]]

\* ----------------------------------------------------------- can_equalize
RECURSIVE CanEqualizeScan_Strict(_, _)
\* the scan with <= in place of <
CanEqualizeScan_Strict(l, idx) ==
  IF idx >= Len(l) THEN TRUE
  ELSE IF At(l, idx) <= At(l, idx - 1) THEN FALSE
  ELSE CanEqualizeScan_Strict(l, idx + 1)

RECURSIVE CanEqualizeScan(_, _)
\* for i in range(idx, len(volumes)): if volumes[i] < volumes[i-1]: return False
CanEqualizeScan(l, idx) ==
  IF idx >= Len(l) THEN TRUE
  ELSE IF At(l, idx) < At(l, idx - 1) THEN FALSE
  ELSE CanEqualizeScan(l, idx + 1)

\* a scan that starts one pair too late
can_equalize_SkipFirst(l) == CanEqualizeScan(l, 2)

can_equalize(l) == CanEqualizeScan(l, 1)

\* --------------------------------------------------------- min_operations
RECURSIVE MinOpsLoop_CountSteps(_, _, _)
\* the loop counting one operation per gap instead of diff
MinOpsLoop_CountSteps(l, idx, ops) ==
  IF idx < 0 THEN [volumes |-> l, operations |-> ops]
  ELSE IF At(l, idx) < At(l, idx + 1)
       THEN LET diff == At(l, idx + 1) - At(l, idx)
            IN MinOpsLoop_CountSteps(RaisePrefix(l, idx, diff), idx - 1, ops + 1)
       ELSE MinOpsLoop_CountSteps(l, idx - 1, ops)

RECURSIVE MinOpsLoop_NoRaise(_, _, _)
\* the loop without the inner "raise all previous reservoirs"
MinOpsLoop_NoRaise(l, idx, ops) ==
  IF idx < 0 THEN [volumes |-> l, operations |-> ops]
  ELSE IF At(l, idx) < At(l, idx + 1)
       THEN LET diff == At(l, idx + 1) - At(l, idx)
            IN MinOpsLoop_NoRaise([l EXCEPT ![idx + 1] = @ + diff],
                                  idx - 1, ops + diff)
       ELSE MinOpsLoop_NoRaise(l, idx - 1, ops)

RECURSIVE MinOpsLoop(_, _, _)
\* for i in range(idx, -1, -1): ... ; the list is mutated in place
MinOpsLoop(l, idx, ops) ==
  IF idx < 0 THEN [volumes |-> l, operations |-> ops]
  ELSE IF At(l, idx) < At(l, idx + 1)
       THEN LET diff == At(l, idx + 1) - At(l, idx)
            IN MinOpsLoop(RaisePrefix(l, idx, diff), idx - 1, ops + diff)
       ELSE MinOpsLoop(l, idx - 1, ops)

\* min_operations without the feasibility check
min_operations_Unchecked(l) ==
  LET n == Len(l)
  IN IF DistinctCount(l) = 1 THEN [volumes |-> l, ret |-> 0]
     ELSE LET r == MinOpsLoop(l, n - 2, 0)
          IN [volumes |-> r.volumes, ret |-> r.operations]

\* min_operations(volumes): the value returned and the contents of the
\* list object `volumes` when it returns
min_operations(l) ==
  IF ~can_equalize(l) THEN [volumes |-> l, ret |-> -1]
  ELSE LET n == Len(l)
       IN IF DistinctCount(l) = 1 THEN [volumes |-> l, ret |-> 0]
          ELSE LET r == MinOpsLoop(l, n - 2, 0)
               IN [volumes |-> r.volumes, ret |-> r.operations]

\* ------------------------------------------------------------------- Init
Init ==
  /\ heap \in {<<s>> : s \in Inputs}
  /\ pc = "idle"
  /\ op = "none"
  /\ arg = heap[INPUT]
  /\ i = 0
  /\ cur = NoRef
  /\ states = <<>>
  /\ operations = 0
  /\ retBool = FALSE
  /\ retCount = 0
  /\ retTrace = <<>>
  /\ retFinal = NoRef

\* ---------------------------------------------------------------- actions
\* the caller runs can_equalize(volumes) on its list
CallCanEqualize ==
  /\ pc = "idle"
  /\ pc' = "done"
  /\ op' = "can_equalize"
  /\ arg' = heap[INPUT]
  /\ retBool' = can_equalize(heap[INPUT])
  /\ UNCHANGED <<heap, i, cur, states, operations, retCount, retTrace, retFinal>>

\* the caller runs min_operations(volumes) on its list
CallMinOperations ==
  /\ pc = "idle"
  /\ pc' = "done"
  /\ op' = "min_operations"
  /\ arg' = heap[INPUT]
  /\ LET r == min_operations(heap[INPUT])
     IN /\ heap' = [heap EXCEPT ![INPUT] = r.volumes]
        /\ retCount' = r.ret
  /\ UNCHANGED <<i, cur, states, operations, retBool, retTrace, retFinal>>

\* where simulate_equalization returns to
AfterSimulate(caller) == IF caller = "visualize" THEN "vis_ret" ELSE "done"

\* entry of simulate with the scan starting one index too low
SimBegin_ShortScan(caller) ==
  /\ pc = "idle"
  /\ op' = caller
  /\ arg' = heap[INPUT]
  /\ IF ~can_equalize(heap[INPUT])
     THEN /\ retCount' = -1
          /\ retTrace' = <<INPUT>>
          /\ pc' = AfterSimulate(caller)
          /\ UNCHANGED <<heap, i, cur, states, operations>>
     ELSE LET c1 == ListCopy(heap, INPUT)
              c2 == ListCopy(c1.heap, c1.ref)
          IN /\ heap' = c2.heap
             /\ cur' = c1.ref
             /\ states' = <<c2.ref>>
             /\ operations' = 0
             /\ i' = Len(heap[INPUT]) - 3
             /\ pc' = "sim_loop"
             /\ UNCHANGED <<retCount, retTrace>>
  /\ UNCHANGED <<retBool, retFinal>>

\* simulate_equalization(volumes), up to the head of the for loop
SimBegin(caller) ==
  /\ pc = "idle"
  /\ op' = caller
  /\ arg' = heap[INPUT]
  /\ IF ~can_equalize(heap[INPUT])
     THEN /\ retCount' = -1
          /\ retTrace' = <<INPUT>>
          /\ pc' = AfterSimulate(caller)
          /\ UNCHANGED <<heap, i, cur, states, operations>>
     ELSE LET c1 == ListCopy(heap, INPUT)
              c2 == ListCopy(c1.heap, c1.ref)
          IN /\ heap' = c2.heap
             /\ cur' = c1.ref
             /\ states' = <<c2.ref>>
             /\ operations' = 0
             /\ i' = Len(heap[INPUT]) - 2
             /\ pc' = "sim_loop"
             /\ UNCHANGED <<retCount, retTrace>>
  /\ UNCHANGED <<retBool, retFinal>>

\* the caller runs simulate_equalization(volumes)
CallSimulate == SimBegin("simulate")

\* the caller runs visualize_equalization(volumes, show_plot=False)
CallVisualize == SimBegin("visualize")

\* the while body taking its snapshot before the increment instead of after
SimWhileBody_SnapshotFirst ==
  /\ pc = "sim_loop"
  /\ i >= 0
  /\ At(heap[cur], i) < At(heap[cur], i + 1)
  /\ LET c == ListCopy(heap, cur)
     IN /\ heap' = [c.heap EXCEPT ![cur] = PrefixOperation(@, i + 1)]
        /\ states' = Append(states, c.ref)
  /\ operations' = operations + 1
  /\ UNCHANGED <<pc, op, arg, i, cur, retBool, retCount, retTrace, retFinal>>

\* one pass of the while body: a prefix operation of length i+1, counted
\* and snapshotted
SimWhileBody ==
  /\ pc = "sim_loop"
  /\ i >= 0
  /\ At(heap[cur], i) < At(heap[cur], i + 1)
  /\ LET h1 == [heap EXCEPT ![cur] = PrefixOperation(@, i + 1)]
         c == ListCopy(h1, cur)
     IN /\ heap' = c.heap
        /\ states' = Append(states, c.ref)
  /\ operations' = operations + 1
  /\ UNCHANGED <<pc, op, arg, i, cur, retBool, retCount, retTrace, retFinal>>

\* the for loop stepping by 2 instead of 1
SimForNext_SkipOne ==
  /\ pc = "sim_loop"
  /\ i >= 0
  /\ ~(At(heap[cur], i) < At(heap[cur], i + 1))
  /\ i' = i - 2
  /\ UNCHANGED <<heap, pc, op, arg, cur, states, operations,
                 retBool, retCount, retTrace, retFinal>>

\* the while condition fails: the for loop moves to the next index
SimForNext ==
  /\ pc = "sim_loop"
  /\ i >= 0
  /\ ~(At(heap[cur], i) < At(heap[cur], i + 1))
  /\ i' = i - 1
  /\ UNCHANGED <<heap, pc, op, arg, cur, states, operations,
                 retBool, retCount, retTrace, retFinal>>

\* the for loop is exhausted: return operations, states
SimReturn ==
  /\ pc = "sim_loop"
  /\ i < 0
  /\ retCount' = operations
  /\ retTrace' = states
  /\ pc' = AfterSimulate(op)
  /\ UNCHANGED <<heap, op, arg, i, cur, states, operations, retBool, retFinal>>

\* visualize_equalization after its call of simulate_equalization
\* (show_plot=False: nothing is drawn)
VisReturn ==
  /\ pc = "vis_ret"
  /\ retFinal' = IF retCount = -1 THEN INPUT ELSE retTrace[Len(retTrace)]
  /\ pc' = "done"
  /\ UNCHANGED <<heap, op, arg, i, cur, states, operations,
                 retBool, retCount, retTrace>>

\* the caller drops the results and keeps its list for a further call
Discard ==
  /\ pc = "done"
  /\ pc' = "idle"
  /\ heap' = <<heap[INPUT]>>
  /\ op' = "none"
  /\ arg' = heap[INPUT]
  /\ i' = 0
  /\ cur' = NoRef
  /\ states' = <<>>
  /\ operations' = 0
  /\ retBool' = FALSE
  /\ retCount' = 0
  /\ retTrace' = <<>>
  /\ retFinal' = NoRef

Next ==
  \/ CallCanEqualize
  \/ CallMinOperations
  \/ CallSimulate
  \/ CallVisualize
  \/ SimWhileBody
  \/ SimForNext
  \/ SimReturn
  \/ VisReturn
  \/ Discard

Spec == Init /\ [][Next]_vars

\* the interpreter runs a started call to its end
FairSpec == Spec /\ WF_vars(SimWhileBody \/ SimForNext \/ SimReturn \/ VisReturn)

\* ------------------------------------------- the free operation system
\* any prefix operation, of any length k in 1..n, applied to the list
ApplyPrefixOperation ==
  /\ pc = "idle"
  /\ operations < MaxOps
  /\ \E k \in 1..Len(heap[INPUT]) :
       heap' = [heap EXCEPT ![INPUT] = PrefixOperation(@, k)]
  /\ operations' = operations + 1
  /\ UNCHANGED <<pc, op, arg, i, cur, states, retBool, retCount, retTrace, retFinal>>

NextOps == ApplyPrefixOperation

SpecOps == Init /\ [][NextOps]_vars

\* ------------------------------------------------------------ vocabulary
AllEqual(l) == \A x, y \in 1..Len(l) : l[x] = l[y]

NonDecreasing(l) == \A x \in 2..Len(l) : l[x] >= l[x - 1]

HasInversion(l) == \E x, y \in 1..Len(l) : x < y /\ l[x] > l[y]

RECURSIVE ApplyOps(_, _, _)
\* the list after the prefix operations ks[from], ks[from+1], ... in order
ApplyOps(l, ks, from) ==
  IF from > Len(ks) THEN l
  ELSE ApplyOps(PrefixOperation(l, ks[from]), ks, from + 1)

\* some run of exactly r prefix operations turns l into a constant list
LevelsIn(l, r) == \E ks \in [1..r -> 1..Len(l)] : AllEqual(ApplyOps(l, ks, 1))

\* the values of the list objects of a trace
Deref(trace) == [x \in 1..Len(trace) |-> heap[trace[x]]]

Returned(f) == pc = "done" /\ op = f

TypeOK ==
  /\ pc \in {"idle", "sim_loop", "vis_ret", "done"}
  /\ op \in {"none", "can_equalize", "min_operations", "simulate", "visualize"}
  /\ arg \in Inputs
  /\ \A r \in 1..Len(heap) : heap[r] \in Inputs
  /\ retBool \in BOOLEAN
  /\ retCount \in -1..MaxVal

\* max(l), for a non-empty list
MaxOf(l) == CHOOSE m \in {l[x] : x \in 1..Len(l)} : \A y \in 1..Len(l) : l[y] <= m

\* some run of at most MaxOps prefix operations levels l
Equalizable(l) == \E r \in 0..MaxOps : LevelsIn(l, r)

\* n-1 zeros followed by one value, n >= 2
ZerosThenM(l) == Len(l) >= 2 /\ \A x \in 1..(Len(l) - 1) : l[x] = 0

\* simulate_equalization has returned to its caller
SimReturned == pc \in {"done", "vis_ret"} /\ op \in {"simulate", "visualize"}

\* ----------------------------------------------------------------- claims

\* C1: for a non-decreasing start, the value of min_operations is the least
\* number of prefix operations that levels it: some run of exactly that many
\* operations reaches a constant list, and no shorter run does.
C1_MinOperationsIsMinimum ==
  NonDecreasing(arg) =>
    /\ operations = 0 => LevelsIn(arg, min_operations(arg).ret)
    /\ AllEqual(heap[INPUT]) => operations >= min_operations(arg).ret

C1_Witness ==
  /\ NonDecreasing(arg)
  /\ Len(arg) = 3
  /\ arg[1] < arg[2] /\ arg[2] < arg[3]
  /\ AllEqual(heap[INPUT])
  /\ operations = min_operations(arg).ret

\* C2 as stated: for n-1 zeros followed by M, min_operations returns M*(n-1).
C2_Original ==
  (Returned("min_operations") /\ ZerosThenM(arg)) =>
    retCount = arg[Len(arg)] * (Len(arg) - 1)

\* C2 amended: for n-1 zeros followed by M (n >= 2, M >= 0), min_operations
\* returns M.
C2_ZerosThenMCostsM ==
  (Returned("min_operations") /\ ZerosThenM(arg)) => retCount = arg[Len(arg)]

C2_Witness ==
  /\ Returned("min_operations")
  /\ ZerosThenM(arg)
  /\ Len(arg) = 3
  /\ arg[3] = 2
  /\ retCount = 2

\* C3: when min_operations returns, the caller's list holds the values it
\* held when the call was made.
C3_NoSideEffect ==
  Returned("min_operations") => heap[INPUT] = arg

\* C4: a list can be levelled by prefix operations exactly when it is
\* non-decreasing, which is what can_equalize answers: a non-decreasing start
\* has a levelling run, and every inverted pair of the start stays inverted
\* under every prefix operation, so no constant list is ever reached.
C4_EqualizableIffNonDecreasing ==
  /\ (operations = 0 /\ NonDecreasing(arg)) => Equalizable(arg)
  /\ \A x, y \in 1..Len(arg) :
       (x < y /\ arg[x] > arg[y]) => heap[INPUT][x] > heap[INPUT][y]
  /\ HasInversion(arg) => ~AllEqual(heap[INPUT])
  /\ can_equalize(arg) <=> ~HasInversion(arg)

C4_Witness ==
  /\ HasInversion(arg)
  /\ operations = MaxOps
  /\ \E x \in 1..(Len(arg) - 1) : heap[INPUT][x] = heap[INPUT][x + 1] + 1

\* C5: can_equalize returns True exactly for the lists with no adjacent pair
\* volumes[i] < volumes[i-1]; so for the empty and the one-element list.
C5_CanEqualizeIffNonDecreasing ==
  Returned("can_equalize") =>
    /\ retBool <=> NonDecreasing(arg)
    /\ Len(arg) <= 1 => retBool

C5_Witness ==
  /\ Returned("can_equalize")
  /\ ~retBool
  /\ Len(arg) = 3
  /\ arg[1] > arg[2] /\ arg[2] <= arg[3]

\* C6: for a non-decreasing list the count returned by simulate_equalization
\* is the value min_operations returns for a list of the same values.
C6_SimulateCountIsMinOperations ==
  (SimReturned /\ NonDecreasing(arg)) => retCount = min_operations(arg).ret

C6_Witness ==
  /\ Returned("simulate")
  /\ Len(arg) = 3
  /\ arg[1] < arg[2] /\ arg[2] < arg[3]
  /\ retCount = 2

\* the trace ends in the list of n copies of the maximum of l
EndsLevelAtMax(trace, l) ==
  /\ Len(trace) >= 1
  /\ LET last == heap[trace[Len(trace)]]
     IN /\ Len(last) = Len(l)
        /\ \A x \in 1..Len(l) : last[x] = MaxOf(l)

\* C7: for a non-decreasing list, simulate_equalization terminates and the
\* last state of its trace is n copies of the maximum of the input;
\* visualize_equalization (show_plot=False) returns that state.
C7_TraceEndsAtMax ==
  /\ []((SimReturned /\ NonDecreasing(arg)) =>
          /\ EndsLevelAtMax(retTrace, arg)
          /\ Returned("visualize") =>
               /\ retFinal = retTrace[Len(retTrace)]
               /\ \A x \in 1..Len(arg) : heap[retFinal][x] = MaxOf(arg))
  /\ [](pc = "sim_loop" => <>(pc = "done"))

C7_Witness ==
  /\ Returned("visualize")
  /\ Len(arg) = 3
  /\ arg[1] < arg[3]
  /\ heap[retFinal] = <<arg[3], arg[3], arg[3]>>

\* C8: for a non-decreasing list, the trace of simulate_equalization has
\* operation count + 1 states and its first state is the input as it was
\* when the call was made; the snapshots are objects of their own, which
\* no later operation touches.
C8_TraceLength ==
  /\ (pc = "sim_loop") =>
       /\ Len(states) = operations + 1
       /\ heap[states[1]] = arg
       /\ \A x \in 1..Len(states) : states[x] \notin {cur, INPUT}
       /\ \A x, y \in 1..Len(states) : x # y => states[x] # states[y]
  /\ (SimReturned /\ NonDecreasing(arg)) =>
       /\ Len(retTrace) = retCount + 1
       /\ heap[retTrace[1]] = arg

C8_Witness ==
  /\ Returned("simulate")
  /\ NonDecreasing(arg)
  /\ retCount = 2
  /\ Len(retTrace) = 3
  /\ heap[retTrace[1]] # heap[retTrace[3]]

\* C9: for a list that is not non-decreasing, min_operations returns -1 and
\* simulate_equalization returns -1 with a trace of one state, the input;
\* nothing has been changed and no working copy made.
C9_InfeasibleSentinel ==
  ~NonDecreasing(arg) =>
    /\ Returned("min_operations") => (retCount = -1 /\ heap = <<arg>>)
    /\ SimReturned =>
         /\ retCount = -1
         /\ Len(retTrace) = 1
         /\ heap[retTrace[1]] = arg
         /\ heap = <<arg>>
         /\ operations = 0

C9_Witness ==
  /\ Returned("simulate")
  /\ ~NonDecreasing(arg)
  /\ Len(arg) = 3
  /\ arg[1] <= arg[2]
  /\ retCount = -1

\* C10: for the empty list, a one-element list and a list of equal elements,
\* min_operations returns 0 and simulate_equalization returns count 0 with a
\* trace that holds the initial state only.
C10_LevelInputCostsNothing ==
  (Len(arg) <= 1 \/ AllEqual(arg)) =>
    /\ Returned("min_operations") => retCount = 0
    /\ SimReturned => (retCount = 0 /\ Deref(retTrace) = <<arg>>)

C10_Witness ==
  /\ Returned("simulate")
  /\ Len(arg) = 3
  /\ AllEqual(arg)
  /\ retCount = 0

\* b is a with exactly its first k elements raised by 1
IsStepOfLen(a, b, k) ==
  /\ Len(b) = Len(a)
  /\ \A x \in 1..Len(a) : b[x] = IF x <= k THEN a[x] + 1 ELSE a[x]

\* every pair of consecutive states of the trace is one prefix operation
UnitPrefixSteps(tr) ==
  \A x \in 1..(Len(tr) - 1) :
    \E k \in 1..Len(tr[x]) : IsStepOfLen(tr[x], tr[x + 1], k)

\* C11: every step of the trace of simulate_equalization is exactly one
\* prefix operation: for consecutive states there is a k in 1..n such that
\* the first k elements of the later state are those of the earlier plus 1
\* and the others are unchanged.  It holds of the trace while it is built
\* and of the trace returned.
C11_TraceStepsArePrefixOperations ==
  /\ pc = "sim_loop" => UnitPrefixSteps(Deref(states))
  /\ SimReturned => UnitPrefixSteps(Deref(retTrace))

C11_Witness ==
  /\ Returned("simulate")
  /\ Len(retTrace) = 3
  /\ IsStepOfLen(heap[retTrace[1]], heap[retTrace[2]], 2)
  /\ IsStepOfLen(heap[retTrace[2]], heap[retTrace[3]], 1)

RECURSIVE SumGaps(_, _)
\* the sum of the adjacent gaps l[x] - l[x-1] for x from `from` to the end
\* (1-based positions)
SumGaps(l, from) ==
  IF from > Len(l) THEN 0 ELSE (l[from] - l[from - 1]) + SumGaps(l, from + 1)

\* last element minus first, 0 for the empty list
LastMinusFirst(l) == IF Len(l) = 0 THEN 0 ELSE l[Len(l)] - l[1]

\* the steps of the trace that are prefix operations of length k
StepsOfLen(tr, k) ==
  {x \in 1..(Len(tr) - 1) : IsStepOfLen(tr[x], tr[x + 1], k)}

\* the replay of l: for k from n-1 down to 1, l[k] - l[k-1] operations of
\* length k, none of length n
IsReplayOf(tr, l) ==
  /\ \A k \in 1..(Len(l) - 1) : Cardinality(StepsOfLen(tr, k)) = l[k + 1] - l[k]
  /\ StepsOfLen(tr, Len(l)) = {}
  /\ \A x, y \in 1..(Len(tr) - 1) : \A k1, k2 \in 1..Len(l) :
       (x < y /\ IsStepOfLen(tr[x], tr[x + 1], k1)
              /\ IsStepOfLen(tr[y], tr[y + 1], k2)) => k1 >= k2

\* C12: for a non-decreasing list S of length n the trace of
\* simulate_equalization is, for k from n-1 down to 1, exactly
\* S[k] - S[k-1] prefix operations of length k (lengths never increase
\* along the trace, length n is never used); the count returned by
\* simulate_equalization and by min_operations is the sum of the adjacent
\* gaps, S[n-1] - S[0].
C12_ReplayOrderAndGapSum ==
  NonDecreasing(arg) =>
    /\ SimReturned =>
         /\ IsReplayOf(Deref(retTrace), arg)
         /\ retCount = SumGaps(arg, 2)
         /\ retCount = LastMinusFirst(arg)
         /\ min_operations(arg).ret = SumGaps(arg, 2)
    /\ Returned("min_operations") =>
         /\ retCount = SumGaps(arg, 2)
         /\ retCount = LastMinusFirst(arg)

C12_Witness ==
  /\ Returned("simulate")
  /\ Len(arg) = 3
  /\ arg[1] = arg[2] /\ arg[3] = arg[2] + 2
  /\ Cardinality(StepsOfLen(Deref(retTrace), 2)) = 2
  /\ StepsOfLen(Deref(retTrace), 1) = {}

\* the reservoirs right of the scan index (0-based positions above idx) hold m
LevelledAbove(l, idx, m) ==
  \A p \in 0..(Len(l) - 1) : p > idx => At(l, p) = m

\* the replay is running, before and after the step
InReplay == pc = "sim_loop" /\ pc' = "sim_loop"

\* C13: during the replay of a feasible input every state of the trace, and
\* the working list, is non-decreasing; when the scan is at index i the
\* positions i+1..n-1 hold the original maximum, and no later step changes
\* them (the scan index never grows and a step leaves them as they are).
C13_ReplayInvariant ==
  /\ [](pc = "sim_loop" =>
          /\ \A x \in 1..Len(states) : NonDecreasing(heap[states[x]])
          /\ NonDecreasing(heap[cur])
          /\ LevelledAbove(heap[cur], i, MaxOf(arg)))
  /\ []((SimReturned /\ NonDecreasing(arg)) =>
          \A x \in 1..Len(retTrace) : NonDecreasing(heap[retTrace[x]]))
  /\ [][InReplay =>
          /\ i' <= i
          /\ \A p \in 0..(Len(arg) - 1) :
               p > i => At(heap'[cur'], p) = At(heap[cur], p)]_vars

C13_Witness ==
  /\ pc = "sim_loop"
  /\ Len(arg) = 3
  /\ i = 0
  /\ operations >= 1
  /\ At(heap[cur], 0) < At(heap[cur], 1)
  /\ At(heap[cur], 1) = arg[3]
  /\ arg[2] < arg[3]

====
